---- MODULE Spec2Model ----
(***************************************************************************)
(* WorkloadSpread validating webhook                                       *)
(* (pkg/webhook/workloadspread/validating/workloadspread_validation.go).   *)
(*                                                                         *)
(* Strings the code only compares are TLA+ strings.  An APIVersion, which  *)
(* the code parses, is the sequence of its "/"-separated segments with the *)
(* "/" separators kept, e.g. <<"apps", "/", "v1">>; a group is the         *)
(* sequence of the segments before the separator.  An IntOrString StrVal,  *)
(* which the code parses, is a sequence of one-character strings.  A Go    *)
(* pointer or slice that may be nil is a sequence of length 0 (nil) or 1.  *)
(* Subset indices in errors are Go indices (0-based).                      *)
(***************************************************************************)
EXTENDS Integers, Sequences, FiniteSets, TLC

VARIABLES store, reqs, resp, call

vars == <<store, reqs, resp, call>>

(***************************************************************************)
(* Bounds of the model.                                                    *)
(***************************************************************************)
MaxSubsets == 3
MaxSiblings == 3
NumReq == 2

(***************************************************************************)
(* Program constants.                                                      *)
(***************************************************************************)
\* MaxScheduledFailedDuration = 300 * time.Second, in seconds.
MaxScheduledFailedDuration == 300
\* math.MaxInt32
MaxInt32 == 2147483647
\* the percentage base handed to GetValueFromIntOrPercent and the limit of the sum
PercentBase == 100
\* the seconds deducted from MaxScheduledFailedDuration
ReconcileCost == 5

Nil == <<>>
Some(v) == <<v>>
IsNil(p) == p = <<>>
Deref(p) == p[1]

\* field.Error: Index is the subset index of the field path (-1 when the path
\* has none), Ref the object the detail names ("" when it names none).
Err(type, fld, idx, detail, ref) ==
  [Type |-> type, Field |-> fld, Index |-> idx, Detail |-> detail, Ref |-> ref]

IsEmptyList(errs) == Len(errs) = 0

RECURSIVE CountIn(_, _)
CountIn(s, tok) ==
  IF Len(s) = 0 THEN 0
  ELSE (IF s[1] = tok THEN 1 ELSE 0) + CountIn(Tail(s), tok)

RECURSIVE IndexOf(_, _)
\* strings.Index: the 1-based position of the first tok in s, 0 when absent
IndexOf(s, tok) ==
  IF Len(s) = 0 THEN 0
  ELSE IF s[1] = tok THEN 1
  ELSE LET r == IndexOf(Tail(s), tok) IN IF r = 0 THEN 0 ELSE r + 1

\* schema.ParseGroupVersion, as called at lines 65, 397, 398, 421 and 422
ParseGroupVersion(gv) ==
  IF Len(gv) = 0 \/ gv = <<"/">>
  THEN [Group |-> <<>>, Version |-> <<>>, err |-> FALSE]
  ELSE CASE CountIn(gv, "/") = 0 ->
              [Group |-> <<>>, Version |-> gv, err |-> FALSE]
         [] CountIn(gv, "/") = 1 ->
              LET i == IndexOf(gv, "/") IN
              [Group |-> SubSeq(gv, 1, i - 1),
               Version |-> SubSeq(gv, i + 1, Len(gv)), err |-> FALSE]
         [] OTHER -> [Group |-> <<>>, Version |-> <<>>, err |-> TRUE]

\* the GroupVersionKind variables of lines 55-61
controllerKruiseKindCS == [Group |-> <<"apps.kruise.io">>, Kind |-> "CloneSet"]
controllerKindSts == [Group |-> <<"apps">>, Kind |-> "StatefulSet"]
controllerKindRS == [Group |-> <<"apps">>, Kind |-> "ReplicaSet"]
controllerKindDep == [Group |-> <<"apps">>, Kind |-> "Deployment"]
controllerKindJob == [Group |-> <<"batch">>, Kind |-> "Job"]
controllerKruiseKindBetaSts == [Group |-> <<"apps.kruise.io">>, Kind |-> "StatefulSet"]
controllerKruiseKindAlphaSts == [Group |-> <<"apps.kruise.io">>, Kind |-> "StatefulSet"]

verifyGroupKind(ref, expectedKind, expectedGroups) ==
  LET gv == ParseGroupVersion(ref.APIVersion) IN
  IF gv.err THEN [ok |-> FALSE, err |-> TRUE]
  ELSE IF ref.Kind # expectedKind THEN [ok |-> FALSE, err |-> FALSE]
  ELSE [ok |-> \E k \in 1..Len(expectedGroups) : expectedGroups[k] = gv.Group,
        err |-> FALSE]

(***************************************************************************)
(* Target reference (validateWorkloadSpreadSpec, lines 104-180).           *)
(* env is what the handler's client returns during one validation:         *)
(*   getOk        h.Client.Get of the referenced workload returned no error*)
(*   whiteListErr GetWSWatchCustomWorkloadWhiteList returned an error      *)
(*   whiteList    the configured {Group, Kind} pairs                       *)
(***************************************************************************)
TargetRefErr(ref, detail) == Err("Invalid", "spec.targetRef", -1, detail, ref.Name)

\* one case of the switch on spec.TargetReference.Kind (lines 112-161), and
\* the case that reports a failed Get
KnownKindCaseReportingGet(ref, env, kind, groups, detail) ==
  LET v == verifyGroupKind(ref, kind, groups) IN
  IF ~v.ok \/ v.err
  THEN [errs |-> <<TargetRefErr(ref, detail)>>, tmpl |-> Nil]
  ELSE IF env.getOk THEN [errs |-> <<>>, tmpl |-> Some([Kind |-> kind])]
       ELSE [errs |-> <<Err("InternalError", "spec.targetRef", -1, "get", "")>>,
             tmpl |-> Nil]

KnownKindCase(ref, env, kind, groups, detail) ==
  LET v == verifyGroupKind(ref, kind, groups) IN
  IF ~v.ok \/ v.err
  THEN [errs |-> <<TargetRefErr(ref, detail)>>, tmpl |-> Nil]
  ELSE [errs |-> <<>>, tmpl |-> IF env.getOk THEN Some([Kind |-> kind]) ELSE Nil]

\* the default case of the switch (lines 162-178)
WhiteListCase(ref, env) ==
  IF env.whiteListErr
  THEN [errs |-> <<Err("InternalError", "spec.targetRef", -1, "whitelist", "")>>,
        tmpl |-> Nil]
  ELSE LET matched == \E k \in 1..Len(env.whiteList) :
                        verifyGroupKind(ref, env.whiteList[k].Kind,
                                        <<env.whiteList[k].Group>>).ok
       IN [errs |-> IF matched THEN <<>>
                    ELSE <<TargetRefErr(ref, "TargetReference's GroupKind is not permitted.")>>,
           tmpl |-> Nil]

validateTargetRef(spec, env) ==
  IF IsNil(spec.TargetReference)
  THEN [errs |-> <<Err("Required", "spec.targetRef", -1,
                       "no targetRef defined in WorkloadSpread", "")>>,
        tmpl |-> Nil]
  ELSE LET ref == Deref(spec.TargetReference) IN
    IF ref.APIVersion = <<>> \/ ref.Name = "" \/ ref.Kind = ""
    THEN [errs |-> <<TargetRefErr(ref, "empty TargetReference is not valid for WorkloadSpread.")>>,
          tmpl |-> Nil]
    ELSE CASE ref.Kind = controllerKruiseKindCS.Kind ->
                KnownKindCase(ref, env, controllerKruiseKindCS.Kind,
                              <<controllerKruiseKindCS.Group>>,
                              "TargetReference is not valid for CloneSet.")
           [] ref.Kind = controllerKindDep.Kind ->
                KnownKindCase(ref, env, controllerKindDep.Kind,
                              <<controllerKindDep.Group>>,
                              "TargetReference is not valid for Deployment.")
           [] ref.Kind = controllerKindRS.Kind ->
                KnownKindCase(ref, env, controllerKindRS.Kind,
                              <<controllerKindRS.Group>>,
                              "TargetReference is not valid for ReplicaSet.")
           [] ref.Kind = controllerKindJob.Kind ->
                KnownKindCase(ref, env, controllerKindJob.Kind,
                              <<controllerKindJob.Group>>,
                              "TargetReference is not valid for Job.")
           [] ref.Kind = controllerKindSts.Kind ->
                KnownKindCase(ref, env, controllerKindSts.Kind,
                              <<controllerKindSts.Group, controllerKruiseKindAlphaSts.Group,
                                controllerKruiseKindBetaSts.Group>>,
                              "TargetReference is not valid for StatefulSet.")
           [] OTHER -> WhiteListCase(ref, env)

(***************************************************************************)
(* External structural validators.  A node selector term, a preferred      *)
(* scheduling term and a toleration carry whether the validator of         *)
(* k8s.io/kubernetes accepts them; the generated conversions never fail.   *)
(***************************************************************************)
\* corevalidation.ValidateNodeSelectorTerm (line 266)
ValidateNodeSelectorTerm(term, i) ==
  IF term.valid THEN <<>>
  ELSE <<Err("Invalid", "spec.subsets.requiredNodeSelectorTerm", i, "nodeSelectorTerm", "")>>

RECURSIVE ValidatePreferredSchedulingTerms(_, _)
\* corevalidation.ValidatePreferredSchedulingTerms (line 281)
ValidatePreferredSchedulingTerms(terms, i) ==
  IF Len(terms) = 0 THEN <<>>
  ELSE (IF terms[1].valid THEN <<>>
        ELSE <<Err("Invalid", "spec.subsets.preferredSchedulingTerms", i,
                   "preferredSchedulingTerm", "")>>)
       \o ValidatePreferredSchedulingTerms(Tail(terms), i)

RECURSIVE ValidateTolerations(_, _)
\* corevalidation.ValidateTolerations (line 295)
ValidateTolerations(tols, i) ==
  IF Len(tols) = 0 THEN <<>>
  ELSE (IF tols[1].valid THEN <<>>
        ELSE <<Err("Invalid", "spec.subsets.tolerations", i, "toleration", "")>>)
       \o ValidateTolerations(Tail(tols), i)

(***************************************************************************)
(* Patch simulation (lines 298-332).  A patch is one of                    *)
(*   "malformed"  bytes that are no JSON object: the merge fails           *)
(*   "mistyped"   the merge succeeds, the result does not decode as a Pod  *)
(*   "badSpec"    merges and decodes; the pod spec is invalid              *)
(*   "ok"         merges and decodes; the pod spec is valid                *)
(* Bytes and pods are named by what the libraries make of them.            *)
(***************************************************************************)
PatchFieldErr(i, detail) == Err("Invalid", "spec.subsets.patch", i, detail, "")

\* strategicpatch.StrategicMergePatch (line 318): nil bytes and an error on failure
StrategicMergePatch(patch) ==
  CASE patch = "malformed" -> [modified |-> "nil", err |-> TRUE]
    [] patch = "mistyped" -> [modified |-> "mistypedJSON", err |-> FALSE]
    [] patch = "badSpec" -> [modified |-> "badSpecJSON", err |-> FALSE]
    [] OTHER -> [modified |-> "podJSON", err |-> FALSE]

\* json.Unmarshal into a fresh v1.Pod (lines 322-323): no bytes are no JSON
Unmarshal(bytes) ==
  CASE bytes = "nil" -> [pod |-> "emptyPod", err |-> TRUE]
    [] bytes = "mistypedJSON" -> [pod |-> "partialPod", err |-> TRUE]
    [] bytes = "badSpecJSON" -> [pod |-> "badSpecPod", err |-> FALSE]
    [] OTHER -> [pod |-> "validPod", err |-> FALSE]

\* convertor.ConvertPod (line 326)
ConvertPod(pod) == [pod |-> pod, err |-> FALSE]

\* corevalidation.ValidatePodSpec (line 330): an empty pod spec has no
\* containers, no restart policy and no DNS policy
ValidatePodSpec(pod, i) ==
  CASE pod = "emptyPod" -> <<Err("Required", "spec.subsets.patch", i, "containers", ""),
                            Err("Required", "spec.subsets.patch", i, "restartPolicy", ""),
                            Err("Required", "spec.subsets.patch", i, "dnsPolicy", "")>>
    [] pod = "partialPod" -> <<Err("Required", "spec.subsets.patch", i, "containers", "")>>
    [] pod = "badSpecPod" -> <<Err("Invalid", "spec.subsets.patch", i, "podSpec", "")>>
    [] OTHER -> <<>>

\* lines 298-332 for one subset
PatchErrs(subset, workloadTemplate, i) ==
  IF IsNil(subset.Patch) \/ IsNil(workloadTemplate) THEN <<>>
  ELSE LET m == StrategicMergePatch(Deref(subset.Patch))
           u == Unmarshal(m.modified)
           c == ConvertPod(u.pod)
       IN (IF m.err THEN <<PatchFieldErr(i, "failed to merge patch")>> ELSE <<>>)
          \o (IF u.err THEN <<PatchFieldErr(i, "failed to unmarshal")>> ELSE <<>>)
          \o (IF c.err THEN <<PatchFieldErr(i, "Convert_v1_Pod_To_core_Pod failed")>> ELSE <<>>)
          \o ValidatePodSpec(c.pod, i)

(***************************************************************************)
(* intstr.GetValueFromIntOrPercent (line 350) and what it calls.           *)
(***************************************************************************)
Digits == <<"0", "1", "2", "3", "4", "5", "6", "7", "8", "9">>
IsDigit(c) == \E d \in 1..Len(Digits) : Digits[d] = c
DigitVal(c) == (CHOOSE d \in 1..Len(Digits) : Digits[d] = c) - 1

RECURSIVE RemoveAll(_, _)
\* strings.Replace(s, tok, "", -1)
RemoveAll(s, tok) ==
  IF Len(s) = 0 THEN <<>>
  ELSE (IF s[1] = tok THEN <<>> ELSE <<s[1]>>) \o RemoveAll(Tail(s), tok)

RECURSIVE DigitsValue(_, _)
DigitsValue(s, acc) ==
  IF Len(s) = 0 THEN acc ELSE DigitsValue(Tail(s), acc * 10 + DigitVal(s[1]))

\* strconv.Atoi: an optional sign, then one or more decimal digits
Atoi(s) ==
  LET signed == Len(s) > 0 /\ s[1] \in {"+", "-"}
      body == IF signed THEN Tail(s) ELSE s
  IN IF Len(body) = 0 \/ \E k \in 1..Len(body) : ~IsDigit(body[k])
     THEN [value |-> 0, err |-> TRUE]
     ELSE [value |-> IF signed /\ s[1] = "-" THEN 0 - DigitsValue(body, 0)
                     ELSE DigitsValue(body, 0),
           err |-> FALSE]

\* math.Ceil(a / b) for b > 0
CeilDiv(a, b) == 0 - ((0 - a) \div b)

\* getIntOrPercentValue: every "%" is dropped from a string before it is parsed
getIntOrPercentValue(mr) ==
  IF mr.Type = "Int" THEN [value |-> mr.IntVal, isPercent |-> FALSE, err |-> FALSE]
  ELSE LET v == Atoi(RemoveAll(mr.StrVal, "%")) IN
       [value |-> v.value, isPercent |-> ~v.err, err |-> v.err]

GetValueFromIntOrPercent(mr, total, roundUp) ==
  LET r == getIntOrPercentValue(mr) IN
  IF r.err THEN [value |-> 0, err |-> TRUE]
  ELSE IF r.isPercent
       THEN [value |-> IF roundUp THEN CeilDiv(r.value * total, 100)
                       ELSE (r.value * total) \div 100,
             err |-> FALSE]
       ELSE [value |-> r.value, err |-> FALSE]

(***************************************************************************)
(* validateWorkloadSpreadSubsets (lines 228-370).  The state of the loop   *)
(* over the subsets is                                                     *)
(*   errs       allErrs                                                    *)
(*   names      subSetNames                                                *)
(*   sum        maxReplicasSum                                             *)
(*   firstType  firstMaxReplicasType (nil or the type)                     *)
(*   returned   the function returned from inside the loop                 *)
(***************************************************************************)
MaxReplicasErr(i, detail) == Err("Invalid", "spec.subsets.maxReplicas", i, detail, "")

\* lines 246-255
NameErrs(subset, i, names) ==
  IF subset.Name = ""
  THEN <<Err("Invalid", "spec.subsets.name", i, "", "")>>
  ELSE IF subset.Name \in names
       THEN <<Err("Invalid", "spec.subsets.name", i, "duplicated subset name", subset.Name)>>
       ELSE <<>>

\* lines 261-296
SchedulingErrs(subset, i) ==
  (IF IsNil(subset.RequiredNodeSelectorTerm) THEN <<>>
   ELSE ValidateNodeSelectorTerm(Deref(subset.RequiredNodeSelectorTerm), i))
  \o (IF IsNil(subset.PreferredNodeSelectorTerms) THEN <<>>
      ELSE ValidatePreferredSchedulingTerms(Deref(subset.PreferredNodeSelectorTerms), i))
  \o (IF IsNil(subset.Tolerations) THEN <<>>
      ELSE ValidateTolerations(Deref(subset.Tolerations), i))

\* allErrs = append(allErrs, err); return allErrs  (lines 341-342, 346-347,
\* 352-353, 359-360), and the append that does not return
AppendAndReturnContinues(st, err) == [st EXCEPT !.errs = Append(@, err)]
AppendAndReturn(st, err) == [st EXCEPT !.errs = Append(@, err), !.returned = TRUE]

\* maxReplicasSum > 100 (line 358), and the comparison that includes 100
SumExceedsAtLimit(sum) == sum >= PercentBase
SumExceeds(sum) == sum > PercentBase

\* the condition of line 345, and the condition on the CloneSet kind instead
MustBeIntViolatedForCloneSet(ws, mr) ==
  /\ ~IsNil(ws.Spec.TargetReference)
  /\ Deref(ws.Spec.TargetReference).Kind = controllerKruiseKindCS.Kind
  /\ mr.Type # "Int"
MustBeIntViolated(ws, mr) ==
  /\ ~IsNil(ws.Spec.TargetReference)
  /\ Deref(ws.Spec.TargetReference).Kind = controllerKindSts.Kind
  /\ mr.Type # "Int"

\* lines 337-363 for one subset
MaxReplicasStep(ws, subset, i, st) ==
  IF IsNil(subset.MaxReplicas) THEN st
  ELSE LET mr == Deref(subset.MaxReplicas)
           st1 == IF IsNil(st.firstType) THEN [st EXCEPT !.firstType = Some(mr.Type)]
                  ELSE st
           v == GetValueFromIntOrPercent(mr, PercentBase, TRUE)
           st2 == [st1 EXCEPT !.sum = @ + v.value]
       IN IF ~IsNil(st.firstType) /\ mr.Type # Deref(st.firstType)
          THEN AppendAndReturn(st, MaxReplicasErr(i,
                 "the maxReplicas type of all subsets must be the same"))
          ELSE IF MustBeIntViolated(ws, mr)
          THEN AppendAndReturn(st1, MaxReplicasErr(i,
                 "the maxReplicas type must be Int for StatefulSet"))
          ELSE IF v.err \/ v.value < 0
          THEN AppendAndReturn(st1, MaxReplicasErr(i, "maxReplicas is not valid for subset"))
          ELSE IF mr.Type = "String"
          THEN IF SumExceeds(st2.sum)
               THEN AppendAndReturn(st2, MaxReplicasErr(i,
                      "the sum of all subset's maxReplicas exceeds 100% is no permitted"))
               ELSE st2
          ELSE st1

\* one iteration of the loop of line 245 (i is the Go index)
SubsetStep(ws, subset, workloadTemplate, i, st) ==
  LET st1 == [st EXCEPT
                !.errs = @ \o NameErrs(subset, i, st.names)
                           \o SchedulingErrs(subset, i)
                           \o PatchErrs(subset, workloadTemplate, i),
                !.names = IF subset.Name = "" THEN @ ELSE @ \cup {subset.Name}]
  IN MaxReplicasStep(ws, subset, i, st1)

RECURSIVE SubsetLoop(_, _, _, _, _)
SubsetLoop(ws, subsets, workloadTemplate, k, st) ==
  IF k > Len(subsets) \/ st.returned THEN st
  ELSE SubsetLoop(ws, subsets, workloadTemplate, k + 1,
                  SubsetStep(ws, subsets[k], workloadTemplate, k - 1, st))

\* the condition of line 366, and the condition without its last conjunct
SumRequirementIgnoresLast(firstType, sum, last) ==
  ~IsNil(firstType) /\ Deref(firstType) = "String" /\ sum < PercentBase
SumRequirementViolated(firstType, sum, last) ==
  /\ ~IsNil(firstType) /\ Deref(firstType) = "String"
  /\ sum < PercentBase
  /\ ~IsNil(last.MaxReplicas)

validateWorkloadSpreadSubsets(ws, subsets, workloadTemplate) ==
  IF Len(subsets) = 0
  THEN <<Err("Required", "spec.subsets", -1, "subsets number must >= 1 in WorkloadSpread", "")>>
  ELSE LET st == SubsetLoop(ws, subsets, workloadTemplate, 1,
                            [errs |-> <<>>, names |-> {}, sum |-> 0,
                             firstType |-> Nil, returned |-> FALSE])
       IN IF st.returned THEN st.errs
          ELSE IF SumRequirementViolated(st.firstType, st.sum, subsets[Len(subsets)])
          THEN Append(st.errs, MaxReplicasErr(0,
                 "maxReplicas sum of all subsets must equal 100% when type is specified as percent"))
          ELSE st.errs

(***************************************************************************)
(* Schedule strategy and target filter (lines 185-223).                    *)
(***************************************************************************)
FixedWorkloadSpreadScheduleStrategyType == "Fixed"
AdaptiveWorkloadSpreadScheduleStrategyType == "Adaptive"

\* allowedMaxSeconds (lines 204-210), n = len(spec.Subsets); and the bound
\* divided by the number of subsets instead
allowedMaxSecondsPerSubset(n) ==
  IF n > 1 THEN (MaxScheduledFailedDuration - ReconcileCost) \div n ELSE MaxInt32
allowedMaxSeconds(n) ==
  IF n > 1 THEN (MaxScheduledFailedDuration - ReconcileCost) \div (n - 1) ELSE MaxInt32

\* lines 186-191
StrategyTypeErrs(spec) ==
  IF /\ spec.ScheduleStrategy.Type # ""
     /\ spec.ScheduleStrategy.Type # FixedWorkloadSpreadScheduleStrategyType
     /\ spec.ScheduleStrategy.Type # AdaptiveWorkloadSpreadScheduleStrategyType
  THEN <<Err("Invalid", "spec.scheduleStrategy.type", -1,
             "ScheduleStrategy's type is not valid", "")>>
  ELSE <<>>

\* lines 193-216
AdaptiveErrs(spec) ==
  IF IsNil(spec.ScheduleStrategy.Adaptive) THEN <<>>
  ELSE LET adaptive == Deref(spec.ScheduleStrategy.Adaptive)
           n == Len(spec.Subsets)
       IN (IF spec.ScheduleStrategy.Type # AdaptiveWorkloadSpreadScheduleStrategyType
           THEN <<Err("Invalid", "spec.scheduleStrategy.type", -1,
                      "the scheduleStrategy's type must be adaptive when using adaptive scheduleStrategy", "")>>
           ELSE <<>>)
          \o (IF n > 1 /\ ~IsNil(spec.Subsets[n].MaxReplicas)
              THEN <<Err("Invalid", "spec.scheduleStrategy.adaptive", -1,
                         "the last subset's maxReplicas must be not specified when using adaptive scheduleStrategy", "")>>
              ELSE <<>>)
          \o (IF /\ ~IsNil(adaptive.RescheduleCriticalSeconds)
                 /\ \/ Deref(adaptive.RescheduleCriticalSeconds) < 0
                    \/ Deref(adaptive.RescheduleCriticalSeconds) > allowedMaxSeconds(n)
              THEN <<Err("Invalid", "spec.scheduleStrategy.adaptive.rescheduleCriticalSeconds", -1,
                         "rescheduleCriticalSeconds < 0 or rescheduleCriticalSeconds > allowedMaxSeconds is not permitted", "")>>
              ELSE <<>>)

\* lines 218-223; a target filter carries whether metav1.LabelSelectorAsSelector
\* accepts its selector
TargetFilterErrs(spec) ==
  IF ~IsNil(spec.TargetFilter) /\ ~Deref(spec.TargetFilter).selectorValid
  THEN <<Err("Invalid", "spec.targetFilter", -1, "selector", "")>>
  ELSE <<>>

validateWorkloadSpreadSpec(obj, env) ==
  LET t == validateTargetRef(obj.Spec, env) IN
  t.errs
  \o validateWorkloadSpreadSubsets(obj, obj.Spec.Subsets, t.tmpl)
  \o StrategyTypeErrs(obj.Spec)
  \o AdaptiveErrs(obj.Spec)
  \o TargetFilterErrs(obj.Spec)

(***************************************************************************)
(* Conflict detection and the update guard (lines 386-428).                *)
(***************************************************************************)
\* the comparison of line 400, and the comparison of the whole APIVersion
SameTargetWithVersion(ref1, ref2) ==
  /\ ref1.APIVersion = ref2.APIVersion
  /\ ref1.Kind = ref2.Kind
  /\ ref1.Name = ref2.Name
SameTarget(ref1, ref2) ==
  /\ ParseGroupVersion(ref1.APIVersion).Group = ParseGroupVersion(ref2.APIVersion).Group
  /\ ref1.Kind = ref2.Kind
  /\ ref1.Name = ref2.Name

ConflictErr(ws, other) ==
  Err("Invalid", "spec.targetRef", -1,
      "ws.spec.targetRef is in conflict with other WorkloadSpread", other.Name)

RECURSIVE ConflictScanAll(_, _)
\* the scan without the return of line 403
ConflictScanAll(ws, others) ==
  IF Len(others) = 0 THEN <<>>
  ELSE (IF /\ others[1].Name # ws.Name
           /\ ~IsNil(ws.Spec.TargetReference)
           /\ ~IsNil(others[1].Spec.TargetReference)
           /\ SameTarget(Deref(ws.Spec.TargetReference),
                         Deref(others[1].Spec.TargetReference))
        THEN <<ConflictErr(ws, others[1])>> ELSE <<>>)
       \o ConflictScanAll(ws, Tail(others))

\* the scan that looks at the first sibling only
ConflictFirstOnly(ws, others) ==
  IF Len(others) = 0 THEN <<>>
  ELSE IF /\ others[1].Name # ws.Name
          /\ ~IsNil(ws.Spec.TargetReference)
          /\ ~IsNil(others[1].Spec.TargetReference)
          /\ SameTarget(Deref(ws.Spec.TargetReference),
                        Deref(others[1].Spec.TargetReference))
  THEN <<ConflictErr(ws, others[1])>>
  ELSE <<>>

RECURSIVE validateWorkloadSpreadConflict(_, _)
validateWorkloadSpreadConflict(ws, others) ==
  IF Len(others) = 0 THEN <<>>
  ELSE IF others[1].Name = ws.Name
  THEN validateWorkloadSpreadConflict(ws, Tail(others))
  ELSE IF /\ ~IsNil(ws.Spec.TargetReference)
          /\ ~IsNil(others[1].Spec.TargetReference)
          /\ SameTarget(Deref(ws.Spec.TargetReference),
                        Deref(others[1].Spec.TargetReference))
  THEN <<ConflictErr(ws, others[1])>>
  ELSE validateWorkloadSpreadConflict(ws, Tail(others))

\* the condition of line 423, and the condition on the whole APIVersion
TargetRefChangedWithVersion(targetRef, oldTargetRef) ==
  \/ targetRef.APIVersion # oldTargetRef.APIVersion
  \/ targetRef.Kind # oldTargetRef.Kind
  \/ targetRef.Name # oldTargetRef.Name
TargetRefChanged(targetRef, oldTargetRef) ==
  \/ ParseGroupVersion(targetRef.APIVersion).Group
       # ParseGroupVersion(oldTargetRef.APIVersion).Group
  \/ targetRef.Kind # oldTargetRef.Kind
  \/ targetRef.Name # oldTargetRef.Name

validateWorkloadSpreadTargetRefUpdate(targetRef, oldTargetRef) ==
  IF ~IsNil(targetRef) /\ ~IsNil(oldTargetRef)
     /\ TargetRefChanged(Deref(targetRef), Deref(oldTargetRef))
  THEN <<Err("Invalid", "spec.targetRef", -1,
             "change TargetReference is not permitted for WorkloadSpread", "")>>
  ELSE <<>>

\* metaErrs is what corevalidation.ValidateObjectMetaUpdate returns (line 412)
validateWorkloadSpreadUpdate(new, old, metaErrs) ==
  metaErrs \o validateWorkloadSpreadTargetRefUpdate(new.Spec.TargetReference,
                                                     old.Spec.TargetReference)

\* lines 90-94; list is what h.Client.List returned: an error, or the items
ConflictWithListed(obj, list) ==
  IF list.err
  THEN <<Err("InternalError", "", -1, "query other WorkloadSpread failed", "")>>
  ELSE validateWorkloadSpreadConflict(obj, list.items)

validatingWorkloadSpreadFn(obj, env, list) ==
  validateWorkloadSpreadSpec(obj, env) \o ConflictWithListed(obj, list)

(***************************************************************************)
(* The values the checked calls are made with.                             *)
(***************************************************************************)
Ref(api, kind, name) == Some([APIVersion |-> api, Kind |-> kind, Name |-> name])
IntOf(n) == Some([Type |-> "Int", IntVal |-> n, StrVal |-> <<>>])
StrOf(s) == Some([Type |-> "String", IntVal |-> 0, StrVal |-> s])

Subset(name, mr) ==
  [Name |-> name, RequiredNodeSelectorTerm |-> Nil, PreferredNodeSelectorTerms |-> Nil,
   Tolerations |-> Nil, MaxReplicas |-> mr, Patch |-> Nil]

SeqsUpTo(S, n) == UNION {[1..k -> S] : k \in 0..n}

DeploymentRef == Ref(<<"apps", "/", "v1">>, "Deployment", "web")
StatefulSetRef == Ref(<<"apps.kruise.io", "/", "v1beta1">>, "StatefulSet", "web")

NoStrategy == [Type |-> "", Adaptive |-> Nil]

WorkloadSpread(name, ref, subsets, strategy, filter) ==
  [Name |-> name,
   Spec |-> [TargetReference |-> ref, Subsets |-> subsets,
             ScheduleStrategy |-> strategy, TargetFilter |-> filter]]

MaxReplicasChoices ==
  {Nil, IntOf(60), IntOf(-1), StrOf(<<"4", "0", "%">>), StrOf(<<"6", "0", "%">>),
   StrOf(<<"x", "%">>), StrOf(<<"-", "4", "0", "%">>)}

SubsetChoices ==
  {Subset("a", mr) : mr \in MaxReplicasChoices}
  \cup {Subset("b", Nil), Subset("b", StrOf(<<"6", "0", "%">>)), Subset("", Nil)}
  \cup {[Subset("c", Nil) EXCEPT
           !.RequiredNodeSelectorTerm = Some([valid |-> FALSE]),
           !.PreferredNodeSelectorTerms = Some(<<[valid |-> TRUE], [valid |-> FALSE]>>),
           !.Tolerations = Some(<<[valid |-> FALSE]>>)],
        [Subset("d", Nil) EXCEPT !.Patch = Some("malformed")],
        [Subset("d", StrOf(<<"4", "0", "%">>)) EXCEPT !.Patch = Some("badSpec")]}

\* the target reference of the object and the workload fetched for it
SubsetsEnvs ==
  {[ref |-> Nil, tmpl |-> Nil],
   [ref |-> DeploymentRef, tmpl |-> Nil],
   [ref |-> DeploymentRef, tmpl |-> Some([Kind |-> "Deployment"])],
   [ref |-> StatefulSetRef, tmpl |-> Some([Kind |-> "StatefulSet"])]}

NoCall == [fn |-> "none", done |-> TRUE]
NoResp == [op |-> "none"]
Procs == 1..NumReq
IdleReq == [pc |-> "idle"]

(***************************************************************************)
(* SpecSubsets: one call of validateWorkloadSpreadSubsets.                 *)
(***************************************************************************)
SubsetsCalls ==
  {[fn |-> "validateWorkloadSpreadSubsets", done |-> FALSE, out |-> <<>>,
    ws |-> WorkloadSpread("ws-a", e.ref, subsets, NoStrategy, Nil),
    tmpl |-> e.tmpl]
   : e \in SubsetsEnvs, subsets \in SeqsUpTo(SubsetChoices, MaxSubsets)}

InitSubsets ==
  /\ store = {}
  /\ reqs = [p \in Procs |-> IdleReq]
  /\ resp = NoResp
  /\ call \in SubsetsCalls

CallSubsets ==
  /\ call.fn = "validateWorkloadSpreadSubsets"
  /\ ~call.done
  /\ call' = [call EXCEPT !.done = TRUE,
                          !.out = validateWorkloadSpreadSubsets(call.ws, call.ws.Spec.Subsets,
                                                                call.tmpl)]
  /\ UNCHANGED <<store, reqs, resp>>

NextSubsets == CallSubsets

SpecSubsets == InitSubsets /\ [][NextSubsets]_vars

(***************************************************************************)
(* What the subsets of a call say, stated without the loop.                *)
(***************************************************************************)
TypeMismatchMsg == "the maxReplicas type of all subsets must be the same"
StatefulSetMsg == "the maxReplicas type must be Int for StatefulSet"
NotValidMsg == "maxReplicas is not valid for subset"
OverflowMsg == "the sum of all subset's maxReplicas exceeds 100% is no permitted"
SumRequirementMsg ==
  "maxReplicas sum of all subsets must equal 100% when type is specified as percent"
ArithmeticMsgs == {TypeMismatchMsg, StatefulSetMsg, NotValidMsg, OverflowMsg}

IsMaxReplicasErr(e, msg) ==
  e.Type = "Invalid" /\ e.Field = "spec.subsets.maxReplicas" /\ e.Detail = msg

HasMaxReplicas(subsets, k) == ~IsNil(subsets[k].MaxReplicas)
TypeAt(subsets, k) == Deref(subsets[k].MaxReplicas).Type
ResolvedAt(subsets, k) ==
  GetValueFromIntOrPercent(Deref(subsets[k].MaxReplicas), PercentBase, TRUE)

\* the subsets before k (1-based) that set MaxReplicas
SetBefore(subsets, k) == {j \in 1..(k - 1) : HasMaxReplicas(subsets, j)}

\* the type of the first subset before k that sets MaxReplicas fixes the type
FixedTypeBefore(subsets, k) ==
  IF SetBefore(subsets, k) = {} THEN Nil
  ELSE Some(TypeAt(subsets, CHOOSE j \in SetBefore(subsets, k) :
                              \A l \in SetBefore(subsets, k) : j <= l))

RECURSIVE PercentSumThrough(_, _)
\* the sum of the percentages of the subsets 1..k
PercentSumThrough(subsets, k) ==
  IF k = 0 THEN 0
  ELSE PercentSumThrough(subsets, k - 1)
       + (IF HasMaxReplicas(subsets, k) /\ TypeAt(subsets, k) = "String"
             /\ ~ResolvedAt(subsets, k).err
          THEN ResolvedAt(subsets, k).value ELSE 0)

IsStatefulSetTarget(ws) ==
  ~IsNil(ws.Spec.TargetReference) /\ Deref(ws.Spec.TargetReference).Kind = "StatefulSet"

\* which arithmetic check subset k fails, "" when none
ArithmeticFailureAt(ws, subsets, k) ==
  IF ~HasMaxReplicas(subsets, k) THEN ""
  ELSE IF ~IsNil(FixedTypeBefore(subsets, k))
          /\ Deref(FixedTypeBefore(subsets, k)) # TypeAt(subsets, k)
  THEN TypeMismatchMsg
  ELSE IF IsStatefulSetTarget(ws) /\ TypeAt(subsets, k) = "String"
  THEN StatefulSetMsg
  ELSE IF ResolvedAt(subsets, k).err \/ ResolvedAt(subsets, k).value < 0
  THEN NotValidMsg
  ELSE IF TypeAt(subsets, k) = "String" /\ PercentSumThrough(subsets, k) > 100
  THEN OverflowMsg
  ELSE ""

\* the first subset (1-based) that fails an arithmetic check, 0 when none does
FirstArithmeticFailure(ws, subsets) ==
  LET F == {k \in 1..Len(subsets) : ArithmeticFailureAt(ws, subsets, k) # ""} IN
  IF F = {} THEN 0 ELSE CHOOSE k \in F : \A l \in F : k <= l

RECURSIVE IndependentErrsThrough(_, _, _)
\* the name, scheduling and patch errors of the subsets 1..k, in order
IndependentErrsThrough(subsets, tmpl, k) ==
  IF k = 0 THEN <<>>
  ELSE IndependentErrsThrough(subsets, tmpl, k - 1)
       \o NameErrs(subsets[k], k - 1,
                   {subsets[j].Name : j \in 1..(k - 1)} \ {""})
       \o SchedulingErrs(subsets[k], k - 1)
       \o PatchErrs(subsets[k], tmpl, k - 1)

SubsetsCallDone == call.fn = "validateWorkloadSpreadSubsets" /\ call.done

\* C6: once a MaxReplicas arithmetic check fails at subset i, validation of the
\* subsets stops: the returned list is the errors accumulated for subsets 0..i
\* before the failing check followed by that error; it ends with that error,
\* holds no error for a subset after i and no sum-must-equal-100 error.
C6_ArithmeticFailureStops ==
  SubsetsCallDone =>
    LET subsets == call.ws.Spec.Subsets
        k == FirstArithmeticFailure(call.ws, subsets)
        out == call.out
    IN k > 0 =>
         /\ Len(out) > 0
         /\ IsMaxReplicasErr(out[Len(out)], ArithmeticFailureAt(call.ws, subsets, k))
         /\ out[Len(out)].Index = k - 1
         /\ \A n \in 1..Len(out) : out[n].Index <= k - 1
         /\ \A n \in 1..Len(out) : out[n].Detail # SumRequirementMsg
         /\ \A n \in 1..(Len(out) - 1) : out[n].Detail \notin ArithmeticMsgs
         /\ SubSeq(out, 1, Len(out) - 1) = IndependentErrsThrough(subsets, call.tmpl, k)

\* a check fails at a subset that is not the last, errors were accumulated
\* before it, and a later subset has errors of its own
C6_Witness ==
  /\ SubsetsCallDone
  /\ LET subsets == call.ws.Spec.Subsets
         k == FirstArithmeticFailure(call.ws, subsets)
     IN /\ k > 1 /\ k < Len(subsets)
        /\ Len(call.out) > 2
        /\ Len(IndependentErrsThrough(subsets, call.tmpl, Len(subsets)))
             > Len(IndependentErrsThrough(subsets, call.tmpl, k))
        /\ \E l \in (k + 1)..Len(subsets) : ArithmeticFailureAt(call.ws, subsets, l) # ""

OverflowIndices(out) == {out[n].Index : n \in {m \in 1..Len(out) : IsMaxReplicasErr(out[m], OverflowMsg)}}

\* every subset that sets MaxReplicas gives a well-formed, non-negative percentage
AllPercentages(subsets) ==
  \A k \in 1..Len(subsets) :
    HasMaxReplicas(subsets, k) =>
      /\ TypeAt(subsets, k) = "String"
      /\ ~ResolvedAt(subsets, k).err
      /\ ResolvedAt(subsets, k).value >= 0

AllIntegers(subsets) ==
  \A k \in 1..Len(subsets) : HasMaxReplicas(subsets, k) => TypeAt(subsets, k) = "Int"

\* C7: percentages are summed in subset order and the overflow error is reported
\* on the MaxReplicas field of exactly the first subset at which the cumulative
\* sum exceeds 100, never on an earlier or later one; integer counts are never
\* summed, so they produce no overflow error whatever their total.
C7_OverflowAtFirstExcess ==
  SubsetsCallDone =>
    LET subsets == call.ws.Spec.Subsets
        out == call.out
    IN /\ Cardinality({n \in 1..Len(out) : IsMaxReplicasErr(out[n], OverflowMsg)}) <= 1
       /\ \A i \in OverflowIndices(out) :
            /\ i + 1 \in 1..Len(subsets)
            /\ HasMaxReplicas(subsets, i + 1) /\ TypeAt(subsets, i + 1) = "String"
            /\ PercentSumThrough(subsets, i + 1) > 100
            /\ PercentSumThrough(subsets, i) <= 100
            /\ IsMaxReplicasErr(out[Len(out)], OverflowMsg)
       /\ (AllPercentages(subsets) /\ ~IsStatefulSetTarget(call.ws)
           /\ PercentSumThrough(subsets, Len(subsets)) > 100)
            => \E i \in OverflowIndices(out) :
                 \A k \in 1..i : PercentSumThrough(subsets, k) <= 100
       /\ AllIntegers(subsets) => OverflowIndices(out) = {}

\* the sum passes through exactly 100 before a later subset brings it to 140
C7_Witness ==
  /\ SubsetsCallDone
  /\ LET subsets == call.ws.Spec.Subsets IN
     /\ Len(subsets) = 3
     /\ PercentSumThrough(subsets, 1) = 40
     /\ PercentSumThrough(subsets, 2) = 100
     /\ PercentSumThrough(subsets, 3) = 140
     /\ OverflowIndices(call.out) = {2}

\* C8: after a loop that finished without early termination the sum-requirement
\* error is emitted, on the first subset's MaxReplicas field, if and only if the
\* fixed type is percentage, the percentages sum to less than 100 and the last
\* subset sets MaxReplicas.
C8_SumRequirement ==
  SubsetsCallDone =>
    LET subsets == call.ws.Spec.Subsets
        out == call.out
        n == Len(subsets)
        S == {m \in 1..Len(out) : IsMaxReplicasErr(out[m], SumRequirementMsg)}
    IN (n > 0 /\ FirstArithmeticFailure(call.ws, subsets) = 0) =>
         /\ S # {} <=> /\ ~IsNil(FixedTypeBefore(subsets, n + 1))
                       /\ Deref(FixedTypeBefore(subsets, n + 1)) = "String"
                       /\ PercentSumThrough(subsets, n) < 100
                       /\ HasMaxReplicas(subsets, n)
         /\ S \subseteq {Len(out)}
         /\ \A m \in S : out[m].Index = 0
         /\ PercentSumThrough(subsets, n) = 100 => S = {}

\* percentages summing to 80, the last one set, the first subset without MaxReplicas
C8_Witness ==
  /\ SubsetsCallDone
  /\ LET subsets == call.ws.Spec.Subsets IN
     /\ Len(subsets) = 3
     /\ ~HasMaxReplicas(subsets, 1)
     /\ PercentSumThrough(subsets, 3) = 80
     /\ HasMaxReplicas(subsets, 3)
     /\ FirstArithmeticFailure(call.ws, subsets) = 0
     /\ IsMaxReplicasErr(call.out[Len(call.out)], SumRequirementMsg)
     /\ call.out[Len(call.out)].Index = 0

\* the first subset (1-based) whose MaxReplicas is a percentage, 0 when none is
FirstPercentage(subsets) ==
  LET P == {k \in 1..Len(subsets) : HasMaxReplicas(subsets, k) /\ TypeAt(subsets, k) = "String"}
  IN IF P = {} THEN 0 ELSE CHOOSE k \in P : \A l \in P : k <= l

\* the last error of the list is an Invalid error on the MaxReplicas field of
\* subset k (1-based) with one of the messages, and nothing after subset k or
\* after the loop was reported
StoppedAt(out, k, msgs) ==
  /\ Len(out) > 0
  /\ out[Len(out)].Type = "Invalid"
  /\ out[Len(out)].Field = "spec.subsets.maxReplicas"
  /\ out[Len(out)].Index = k - 1
  /\ out[Len(out)].Detail \in msgs
  /\ \A n \in 1..Len(out) : out[n].Index <= k - 1
  /\ \A n \in 1..(Len(out) - 1) : out[n].Detail \notin ArithmeticMsgs
  /\ \A n \in 1..Len(out) : out[n].Detail # SumRequirementMsg

\* an integer MaxReplicas below zero in a subset before k
NegativeIntegerBefore(subsets, k) ==
  {j \in SetBefore(subsets, k) :
     TypeAt(subsets, j) = "Int" /\ Deref(subsets[j].MaxReplicas).IntVal < 0}

\* C11: a specification accepted for a StatefulSet target has only integer
\* MaxReplicas, and the first subset whose MaxReplicas is a percentage yields
\* an Invalid error on that subset's MaxReplicas field that stops subset
\* validation: the StatefulSet error, or the type-mismatch error when an earlier
\* subset fixed the integer type; when an earlier subset sets a negative integer,
\* validation has stopped at the first such subset instead.
C11_StatefulSetIntegerOnly ==
  (SubsetsCallDone /\ IsStatefulSetTarget(call.ws)) =>
    LET subsets == call.ws.Spec.Subsets
        out == call.out
        k == FirstPercentage(subsets)
        N == NegativeIntegerBefore(subsets, k)
    IN /\ IsEmptyList(out) => AllIntegers(subsets)
       /\ (k > 0 /\ N = {}) =>
            StoppedAt(out, k, IF SetBefore(subsets, k) = {} THEN {StatefulSetMsg}
                              ELSE {TypeMismatchMsg})
       /\ (k > 0 /\ N # {}) =>
            StoppedAt(out, CHOOSE j \in N : \A l \in N : j <= l, {NotValidMsg})

\* C11 as stated: for a StatefulSet target the first subset whose MaxReplicas is
\* a percentage always yields the Invalid error on its own MaxReplicas field,
\* the StatefulSet error or the type-mismatch error that fired before it.
C11_FirstPercentageAlwaysRejected ==
  (SubsetsCallDone /\ IsStatefulSetTarget(call.ws)) =>
    LET subsets == call.ws.Spec.Subsets
        k == FirstPercentage(subsets)
    IN /\ IsEmptyList(call.out) => AllIntegers(subsets)
       /\ k > 0 => StoppedAt(call.out, k, {StatefulSetMsg, TypeMismatchMsg})

\* a StatefulSet target whose second of three subsets is the first percentage,
\* the first sets none: the StatefulSet error on subset 1 ends the list, after
\* the errors accumulated before it
C11_Witness ==
  /\ SubsetsCallDone /\ IsStatefulSetTarget(call.ws)
  /\ LET subsets == call.ws.Spec.Subsets IN
     /\ Len(subsets) = 3
     /\ FirstPercentage(subsets) = 2
     /\ SetBefore(subsets, 2) = {}
     /\ HasMaxReplicas(subsets, 3)
     /\ Len(call.out) > 1
     /\ IsMaxReplicasErr(call.out[Len(call.out)], StatefulSetMsg)
     /\ call.out[Len(call.out)].Index = 1

(***************************************************************************)
(* SpecValidate: one call of validatingWorkloadSpreadFn.                   *)
(***************************************************************************)
WhiteList == <<[Group |-> <<"game.kruise.io">>, Kind |-> "GameServerSet"]>>
CustomRef == Ref(<<"game.kruise.io", "/", "v1alpha1">>, "GameServerSet", "web")

Env(getOk, whiteListErr) ==
  [getOk |-> getOk, whiteListErr |-> whiteListErr, whiteList |-> WhiteList]

ValidateRefs ==
  {Nil, DeploymentRef, StatefulSetRef, CustomRef,
   Ref(<<>>, "Deployment", "web"),
   Ref(<<"apps", "/", "v1">>, "Deployment", ""),
   Ref(<<"batch", "/", "v1">>, "Deployment", "web"),
   Ref(<<"apps", "/", "v1", "/", "x">>, "Deployment", "web"),
   Ref(<<"apps.kruise.io", "/", "v1alpha1">>, "CloneSet", "web"),
   Ref(<<"apps", "/", "v1">>, "ReplicaSet", "web"),
   Ref(<<"batch", "/", "v1">>, "Job", "web"),
   Ref(<<"apps", "/", "v1">>, "StatefulSet", "web"),
   Ref(<<"example.com", "/", "v1">>, "Widget", "web"),
   Ref(<<"game.kruise.io", "/", "v1", "/", "x">>, "GameServerSet", "web")}

RescheduleCriticalSecondsChoices == {-1, 0, 147, 148, 295, 296, MaxInt32}

StrategyChoices ==
  {[Type |-> t, Adaptive |-> a] :
     t \in {"", "Fixed", "Adaptive", "Bogus"},
     a \in {Nil, Some([RescheduleCriticalSeconds |-> Nil])}
           \cup {Some([RescheduleCriticalSeconds |-> Some(r)]) :
                   r \in RescheduleCriticalSecondsChoices}}

ListOk(items) == [err |-> FALSE, items |-> items]
ListFailed == [err |-> TRUE, items |-> <<>>]

SiblingOfWeb ==
  WorkloadSpread("ws-b", Ref(<<"apps", "/", "v1beta1">>, "Deployment", "web"),
                 <<Subset("a", Nil)>>, NoStrategy, Nil)

ValidateCall(obj, env, list) ==
  [fn |-> "validatingWorkloadSpreadFn", done |-> FALSE, out |-> <<>>,
   obj |-> obj, env |-> env, list |-> list]

\* calls that vary the schedule strategy and the number of subsets
StrategyCalls ==
  {ValidateCall(WorkloadSpread("ws-a", DeploymentRef, subsets, strategy, Nil),
                Env(TRUE, FALSE), ListOk(<<>>))
   : subsets \in SeqsUpTo({Subset("a", Nil), Subset("b", IntOf(60)), Subset("c", Nil)},
                          MaxSubsets),
     strategy \in StrategyChoices}

PatchSubsetChoices ==
  {Subset("a", Nil), Subset("b", IntOf(60)),
   [Subset("d", Nil) EXCEPT !.Patch = Some("malformed")],
   [Subset("e", Nil) EXCEPT !.Patch = Some("ok")],
   [Subset("f", Nil) EXCEPT !.Patch = Some("badSpec")],
   [Subset("g", Nil) EXCEPT !.Patch = Some("mistyped")]}

\* calls that vary the patches and whether the workload was fetched
PatchCalls ==
  {ValidateCall(WorkloadSpread("ws-a", ref, subsets, strategy, Nil),
                Env(getOk, FALSE), ListOk(<<>>))
   : ref \in {DeploymentRef, StatefulSetRef, CustomRef},
     getOk \in BOOLEAN,
     subsets \in SeqsUpTo(PatchSubsetChoices, MaxSubsets),
     strategy \in {NoStrategy,
                   [Type |-> "Adaptive",
                    Adaptive |-> Some([RescheduleCriticalSeconds |-> Some(0)])]}}

\* calls that vary the target reference, the target filter and the client's answers
TargetRefCalls ==
  {ValidateCall(WorkloadSpread("ws-a", ref, subsets, NoStrategy, filter),
                Env(getOk, whiteListErr), list)
   : ref \in ValidateRefs,
     subsets \in {<<>>, <<Subset("a", Nil)>>},
     filter \in {Nil, Some([selectorValid |-> TRUE]), Some([selectorValid |-> FALSE])},
     getOk \in BOOLEAN, whiteListErr \in BOOLEAN,
     list \in {ListFailed, ListOk(<<>>), ListOk(<<SiblingOfWeb>>)}}

ValidateCalls == StrategyCalls \cup PatchCalls \cup TargetRefCalls

InitValidate ==
  /\ store = {}
  /\ reqs = [p \in Procs |-> IdleReq]
  /\ resp = NoResp
  /\ call \in ValidateCalls

CallValidate ==
  /\ call.fn = "validatingWorkloadSpreadFn"
  /\ ~call.done
  /\ call' = [call EXCEPT !.done = TRUE,
                          !.out = validatingWorkloadSpreadFn(call.obj, call.env, call.list)]
  /\ UNCHANGED <<store, reqs, resp>>

NextValidate == CallValidate

SpecValidate == InitValidate /\ [][NextValidate]_vars

ValidateCallDone == call.fn = "validatingWorkloadSpreadFn" /\ call.done

\* the subsets (1-based) whose patch fails to merge
MalformedPatches(obj) ==
  {k \in 1..Len(obj.Spec.Subsets) : obj.Spec.Subsets[k].Patch = Some("malformed")}

WithoutPatch(obj, k) == [obj EXCEPT !.Spec.Subsets[k].Patch = Nil]

\* C5: for a specification that is otherwise valid and whose target's pod
\* template was resolved, one subset with a patch that fails to merge makes
\* Validate return exactly one error, an Invalid error on that subset's patch
\* field, and nothing else for that patch.
C5_MalformedPatchSingleError ==
  ValidateCallDone =>
    \A k \in MalformedPatches(call.obj) :
      (/\ MalformedPatches(call.obj) = {k}
       /\ ~IsNil(validateTargetRef(call.obj.Spec, call.env).tmpl)
       /\ validatingWorkloadSpreadFn(WithoutPatch(call.obj, k), call.env, call.list) = <<>>)
      => /\ Len(call.out) = 1
         /\ call.out[1].Type = "Invalid"
         /\ call.out[1].Field = "spec.subsets.patch"
         /\ call.out[1].Index = k - 1

\* C9: every specification Validate accepts satisfies the adaptive invariant:
\* Adaptive settings present imply the Adaptive type, and the Adaptive type with
\* more than one subset implies that the last subset's MaxReplicas is unset.
C9_AcceptedAdaptiveInvariant ==
  (ValidateCallDone /\ call.out = <<>>) =>
    LET spec == call.obj.Spec
        n == Len(spec.Subsets)
    IN /\ ~IsNil(spec.ScheduleStrategy.Adaptive) => spec.ScheduleStrategy.Type = "Adaptive"
       /\ (spec.ScheduleStrategy.Type = "Adaptive" /\ n > 1)
            => IsNil(spec.Subsets[n].MaxReplicas)

IsRescheduleErr(e) ==
  e.Type = "Invalid" /\ e.Field = "spec.scheduleStrategy.adaptive.rescheduleCriticalSeconds"

\* C10: with RescheduleCriticalSeconds = r in the Adaptive settings, Validate
\* reports the rescheduleCriticalSeconds error if and only if r < 0 or
\* r > allowedMax, where allowedMax = floor(295 / (subsetCount - 1)) for more than
\* one subset and 2^31 - 1 otherwise; r = -1 always fails, r = 0 never does.
C10_RescheduleCriticalSeconds ==
  (/\ ValidateCallDone
   /\ ~IsNil(call.obj.Spec.ScheduleStrategy.Adaptive)
   /\ ~IsNil(Deref(call.obj.Spec.ScheduleStrategy.Adaptive).RescheduleCriticalSeconds)) =>
    LET r == Deref(Deref(call.obj.Spec.ScheduleStrategy.Adaptive).RescheduleCriticalSeconds)
        n == Len(call.obj.Spec.Subsets)
        allowedMax == IF n > 1 THEN 295 \div (n - 1) ELSE 2147483647
        reported == \E m \in 1..Len(call.out) : IsRescheduleErr(call.out[m])
    IN /\ reported <=> (r < 0 \/ r > allowedMax)
       /\ r = -1 => reported
       /\ r = 0 => ~reported
       /\ Cardinality({m \in 1..Len(call.out) : IsRescheduleErr(call.out[m])}) <= 1

\* three subsets: 147 = floor(295 / 2) is the largest accepted value
C10_Witness ==
  /\ ValidateCallDone
  /\ Len(call.obj.Spec.Subsets) = 3
  /\ call.obj.Spec.ScheduleStrategy.Adaptive = Some([RescheduleCriticalSeconds |-> Some(147)])
  /\ call.obj.Spec.ScheduleStrategy.Type = "Adaptive"
  /\ call.out = <<>>

(***************************************************************************)
(* The parsed group of an APIVersion, stated on its segments: the segments *)
(* before the separator when there is exactly one separator, and the empty *)
(* group otherwise (no separator, or a string that does not parse).        *)
(***************************************************************************)
GroupPart(api) ==
  IF Cardinality({k \in 1..Len(api) : api[k] = "/"}) = 1
  THEN SubSeq(api, 1, (CHOOSE k \in 1..Len(api) : api[k] = "/") - 1)
  ELSE <<>>

\* two target references (both non-nil) name the same group, kind and name
Collide(r1, r2) ==
  /\ ~IsNil(r1) /\ ~IsNil(r2)
  /\ GroupPart(Deref(r1).APIVersion) = GroupPart(Deref(r2).APIVersion)
  /\ Deref(r1).Kind = Deref(r2).Kind
  /\ Deref(r1).Name = Deref(r2).Name

(***************************************************************************)
(* SpecUpdate: one call of validateWorkloadSpreadUpdate.                   *)
(***************************************************************************)
UpdateRefs ==
  {Nil, DeploymentRef,
   Ref(<<"apps", "/", "v1beta1">>, "Deployment", "web"),
   Ref(<<"apps", "/", "v1">>, "Deployment", "web2"),
   Ref(<<"apps", "/", "v1">>, "ReplicaSet", "web"),
   Ref(<<"batch", "/", "v1">>, "Deployment", "web"),
   Ref(<<"v1">>, "Deployment", "web"),
   Ref(<<"v2">>, "Deployment", "web"),
   Ref(<<"apps", "/", "v1", "/", "x">>, "Deployment", "web"),
   Ref(<<>>, "Deployment", "web")}

MetaUpdateErr == Err("Invalid", "metadata", -1, "field is immutable", "")

UpdateCalls ==
  {[fn |-> "validateWorkloadSpreadUpdate", done |-> FALSE, out |-> <<>>,
    new |-> WorkloadSpread("ws-a", newRef, newSubsets, NoStrategy, Nil),
    old |-> WorkloadSpread("ws-a", oldRef, <<Subset("a", Nil)>>, NoStrategy, Nil),
    metaErrs |-> metaErrs]
   : newRef \in UpdateRefs, oldRef \in UpdateRefs,
     newSubsets \in {<<Subset("a", Nil)>>, <<Subset("a", Nil), Subset("b", Nil)>>},
     metaErrs \in {<<>>, <<MetaUpdateErr>>}}

InitUpdate ==
  /\ store = {}
  /\ reqs = [p \in Procs |-> IdleReq]
  /\ resp = NoResp
  /\ call \in UpdateCalls

CallUpdate ==
  /\ call.fn = "validateWorkloadSpreadUpdate"
  /\ ~call.done
  /\ call' = [call EXCEPT !.done = TRUE,
                          !.out = validateWorkloadSpreadUpdate(call.new, call.old,
                                                               call.metaErrs)]
  /\ UNCHANGED <<store, reqs, resp>>

NextUpdate == CallUpdate

SpecUpdate == InitUpdate /\ [][NextUpdate]_vars

UpdateCallDone == call.fn = "validateWorkloadSpreadUpdate" /\ call.done

IsChangeErr(e) ==
  /\ e.Type = "Invalid" /\ e.Field = "spec.targetRef"
  /\ e.Detail = "change TargetReference is not permitted for WorkloadSpread"

\* C3: ValidateUpdate(old, new) reports the "change is not permitted" error if
\* and only if both target references are present and differ in parsed group,
\* kind or name; a change of only the version, or only of fields outside the
\* target reference, produces no such error.
C3_TargetRefImmutable ==
  UpdateCallDone =>
    LET new == call.new.Spec.TargetReference
        old == call.old.Spec.TargetReference
        reported == \E m \in 1..Len(call.out) : IsChangeErr(call.out[m])
    IN /\ reported <=> (~IsNil(new) /\ ~IsNil(old) /\ ~Collide(new, old))
       /\ new = old => ~reported
       /\ (/\ ~IsNil(new) /\ ~IsNil(old)
           /\ GroupPart(Deref(new).APIVersion) = GroupPart(Deref(old).APIVersion)
           /\ [Deref(new) EXCEPT !.APIVersion = <<>>] = [Deref(old) EXCEPT !.APIVersion = <<>>])
            => ~reported
       /\ Cardinality({m \in 1..Len(call.out) : IsChangeErr(call.out[m])}) <= 1
       /\ Len(call.out) = Len(call.metaErrs) + (IF reported THEN 1 ELSE 0)

\* an update that changes the version of the reference and adds a subset passes
C3_Witness ==
  /\ UpdateCallDone
  /\ call.old.Spec.TargetReference = DeploymentRef
  /\ call.new.Spec.TargetReference = Ref(<<"apps", "/", "v1beta1">>, "Deployment", "web")
  /\ Len(call.new.Spec.Subsets) > Len(call.old.Spec.Subsets)
  /\ call.out = <<>>

(***************************************************************************)
(* SpecConflict: one call of validateWorkloadSpreadConflict.               *)
(***************************************************************************)
SiblingNames == {"ws-a", "ws-b", "ws-c", "ws-d"}

SiblingRefs ==
  {Nil,
   Ref(<<"apps", "/", "v1beta1">>, "Deployment", "web"),
   Ref(<<"apps", "/", "v1">>, "Deployment", "api"),
   Ref(<<"batch", "/", "v1">>, "Deployment", "web"),
   Ref(<<"apps", "/", "v1">>, "ReplicaSet", "web")}

SiblingChoices ==
  {WorkloadSpread(name, ref, <<Subset("a", Nil)>>, NoStrategy, Nil)
   : name \in SiblingNames, ref \in SiblingRefs}

\* the items of a list have distinct names
DistinctNames(items) ==
  \A i, j \in 1..Len(items) : i # j => items[i].Name # items[j].Name

ConflictCalls ==
  {[fn |-> "validateWorkloadSpreadConflict", done |-> FALSE, out |-> <<>>,
    ws |-> WorkloadSpread("ws-a", ref, <<Subset("a", Nil)>>, NoStrategy, Nil),
    others |-> others]
   : ref \in {Nil, DeploymentRef},
     others \in {o \in SeqsUpTo(SiblingChoices, MaxSiblings) : DistinctNames(o)}}

InitConflict ==
  /\ store = {}
  /\ reqs = [p \in Procs |-> IdleReq]
  /\ resp = NoResp
  /\ call \in ConflictCalls

CallConflict ==
  /\ call.fn = "validateWorkloadSpreadConflict"
  /\ ~call.done
  /\ call' = [call EXCEPT !.done = TRUE,
                          !.out = validateWorkloadSpreadConflict(call.ws, call.others)]
  /\ UNCHANGED <<store, reqs, resp>>

NextConflict == CallConflict

SpecConflict == InitConflict /\ [][NextConflict]_vars

ConflictCallDone == call.fn = "validateWorkloadSpreadConflict" /\ call.done

\* the siblings (1-based) that collide with ws
Colliders(ws, others) ==
  {k \in 1..Len(others) :
     /\ others[k].Name # ws.Name
     /\ Collide(ws.Spec.TargetReference, others[k].Spec.TargetReference)}

\* C4: DetectConflict returns exactly one Invalid error, naming the first sibling
\* in list order with another name and the same parsed group, kind and name of
\* target, and no error when there is no such sibling; never more than one
\* error; and the result is symmetric between a candidate and a sibling.
C4_FirstConflictOnly ==
  ConflictCallDone =>
    LET C == Colliders(call.ws, call.others)
        out == call.out
    IN /\ C = {} => out = <<>>
       /\ C # {} =>
            /\ Len(out) = 1
            /\ out[1].Type = "Invalid" /\ out[1].Field = "spec.targetRef"
            /\ out[1].Ref = call.others[CHOOSE k \in C : \A l \in C : k <= l].Name
       /\ Len(out) <= 1
       /\ \A k \in 1..Len(call.others) :
            (validateWorkloadSpreadConflict(call.ws, <<call.others[k]>>) # <<>>)
              <=> (validateWorkloadSpreadConflict(call.others[k], <<call.ws>>) # <<>>)

\* two siblings collide, the first of them is not the first of the list
C4_Witness ==
  /\ ConflictCallDone
  /\ Cardinality(Colliders(call.ws, call.others)) = 2
  /\ 1 \notin Colliders(call.ws, call.others)
  /\ 2 \in Colliders(call.ws, call.others)
  /\ Len(call.out) = 1
  /\ call.out[1].Ref = call.others[2].Name

(***************************************************************************)
(* Admission.  store is the set of persisted WorkloadSpreads of one        *)
(* namespace (their names are distinct).  A create or update request is    *)
(* validated by the handler and persisted by the API server only when the  *)
(* returned list is empty.                                                 *)
(***************************************************************************)
StoredNames(st) == {o.Name : o \in st}

\* the orders in which a List may return the stored objects
Orderings(st) ==
  {items \in [1..Cardinality(st) -> st] :
     \A i, j \in 1..Cardinality(st) : i # j => items[i] # items[j]}

ListResults(st) == {ListFailed} \cup {ListOk(items) : items \in Orderings(st)}

AdmissionNames == {"ws-a", "ws-b", "ws-c"}

AdmissionRefs ==
  {Nil, DeploymentRef,
   Ref(<<"apps", "/", "v1beta1">>, "Deployment", "web"),
   Ref(<<"apps", "/", "v1">>, "Deployment", "api")}

AdmissionObjects ==
  {WorkloadSpread(name, ref, subsets, NoStrategy, Nil)
   : name \in AdmissionNames, ref \in AdmissionRefs,
     subsets \in {<<Subset("a", Nil)>>, <<Subset("a", Nil), Subset("b", Nil)>>}}

(***************************************************************************)
(* SpecSerial: requests are admitted one at a time.                        *)
(***************************************************************************)
InitSerial ==
  /\ store = {}
  /\ reqs = [p \in Procs |-> IdleReq]
  /\ resp = NoResp
  /\ call = NoCall

\* a create request: validatingWorkloadSpreadFn, then the write
AdmitCreate(obj, env, list) ==
  /\ obj.Name \notin StoredNames(store)
  /\ LET errs == validatingWorkloadSpreadFn(obj, env, list) IN
     /\ store' = IF IsEmptyList(errs) THEN store \cup {obj} ELSE store
     /\ resp' = [op |-> "create", name |-> obj.Name, errs |-> errs]
  /\ UNCHANGED <<reqs, call>>

\* an update request: validatingWorkloadSpreadFn and validateWorkloadSpreadUpdate
\* against the stored object, then the write
AdmitUpdate(obj, env, list, metaErrs) ==
  /\ \E old \in store :
       /\ old.Name = obj.Name
       /\ LET errs == validatingWorkloadSpreadFn(obj, env, list)
                      \o validateWorkloadSpreadUpdate(obj, old, metaErrs)
          IN /\ store' = IF IsEmptyList(errs) THEN (store \ {old}) \cup {obj} ELSE store
             /\ resp' = [op |-> "update", name |-> obj.Name, errs |-> errs]
  /\ UNCHANGED <<reqs, call>>

\* a delete goes through no validation
Delete(name) ==
  /\ name \in StoredNames(store)
  /\ store' = {o \in store : o.Name # name}
  /\ resp' = [op |-> "delete", name |-> name, errs |-> <<>>]
  /\ UNCHANGED <<reqs, call>>

NextSerial ==
  \/ \E obj \in AdmissionObjects, list \in ListResults(store) :
       AdmitCreate(obj, Env(FALSE, FALSE), list)
  \/ \E obj \in AdmissionObjects, list \in ListResults(store),
        metaErrs \in {<<>>, <<MetaUpdateErr>>} :
       AdmitUpdate(obj, Env(FALSE, FALSE), list, metaErrs)
  \/ \E name \in AdmissionNames : Delete(name)

SpecSerial == InitSerial /\ [][NextSerial]_vars

\* C2: when create and update requests are admitted one at a time, starting
\* from an empty store, no reachable store holds two specifications with
\* different names whose target references have the same parsed group, kind
\* and name.
C2_NoSharedTarget ==
  \A a, b \in store :
    a.Name # b.Name => ~Collide(a.Spec.TargetReference, b.Spec.TargetReference)

IsConflictErr(e) ==
  /\ e.Type = "Invalid" /\ e.Field = "spec.targetRef"
  /\ e.Detail = "ws.spec.targetRef is in conflict with other WorkloadSpread"

\* two specifications are stored and an update that would move one of them
\* onto the other's target was just rejected for the conflict
C2_Witness ==
  /\ Cardinality(store) = 2
  /\ resp.op = "update"
  /\ \E m \in 1..Len(resp.errs) : IsConflictErr(resp.errs[m])
  /\ \E m \in 1..Len(resp.errs) : IsChangeErr(resp.errs[m])

(***************************************************************************)
(* Spec: create requests validated concurrently.  Request p creates an     *)
(* object named RequestNames[p]; it runs validatingWorkloadSpreadFn in     *)
(* three steps (the spec validation of line 86, the List of line 90, the   *)
(* conflict check and return of lines 91-96), and the API server persists  *)
(* the object of an allowed request afterwards.  Nothing orders the steps  *)
(* of different requests.                                                  *)
(*   pc    "idle", "validated", "listed", "allowed", "denied", "persisted" *)
(*   obj   the object of the request                                       *)
(*   errs  allErrs                                                         *)
(*   list  what List returned                                              *)
(***************************************************************************)
RequestNames == <<"ws-1", "ws-2", "ws-3", "ws-4", "ws-5", "ws-6">>

RequestRefs ==
  {Nil,
   Ref(<<"apps", "/", "v1">>, "StatefulSet", "web"),
   Ref(<<"apps", "/", "v1beta1">>, "StatefulSet", "web"),
   StatefulSetRef}

Init ==
  /\ store = {}
  /\ reqs = [p \in Procs |-> IdleReq]
  /\ resp = NoResp
  /\ call = NoCall

\* line 86
BeginCreate(p, ref) ==
  /\ reqs[p].pc = "idle"
  /\ LET obj == WorkloadSpread(RequestNames[p], ref, <<Subset("a", Nil)>>, NoStrategy, Nil)
     IN reqs' = [reqs EXCEPT ![p] = [pc |-> "validated", obj |-> obj,
                                     errs |-> validateWorkloadSpreadSpec(obj, Env(FALSE, FALSE)),
                                     list |-> ListOk(<<>>)]]
  /\ UNCHANGED <<store, resp, call>>

\* lines 89-90
ListSiblings(p, list) ==
  /\ reqs[p].pc = "validated"
  /\ reqs' = [reqs EXCEPT ![p].pc = "listed", ![p].list = list]
  /\ UNCHANGED <<store, resp, call>>

\* lines 91-96 and the handler's verdict
Decide(p) ==
  /\ reqs[p].pc = "listed"
  /\ LET errs == reqs[p].errs \o ConflictWithListed(reqs[p].obj, reqs[p].list) IN
     reqs' = [reqs EXCEPT ![p].errs = errs,
                          ![p].pc = IF IsEmptyList(errs) THEN "allowed" ELSE "denied"]
  /\ UNCHANGED <<store, resp, call>>

\* the API server writes the object of an allowed create
Persist(p) ==
  /\ reqs[p].pc = "allowed"
  /\ store' = store \cup {reqs[p].obj}
  /\ reqs' = [reqs EXCEPT ![p].pc = "persisted"]
  /\ UNCHANGED <<resp, call>>

Next ==
  \E p \in Procs :
    \/ \E ref \in RequestRefs : BeginCreate(p, ref)
    \/ \E list \in ListResults(store) : ListSiblings(p, list)
    \/ Decide(p)
    \/ Persist(p)

Spec == Init /\ [][Next]_vars

Listed(p) == reqs[p].pc \in {"listed", "allowed", "denied", "persisted"}
Decided(p) == reqs[p].pc \in {"allowed", "denied", "persisted"}

\* the object of q is among the items request p listed
Saw(p, q) ==
  /\ ~reqs[p].list.err
  /\ \E k \in 1..Len(reqs[p].list.items) : reqs[p].list.items[k] = reqs[q].obj

\* C1: a create request is judged against the siblings it listed and nothing
\* else: it carries a conflict error exactly when a listed sibling collides with
\* it.  So two creates with different names and colliding target references
\* that each list before the other is persisted both return no conflict error,
\* and two colliding specifications are stored together only that way.
C1_JudgedOnListedSiblings ==
  /\ \A p \in Procs :
       Decided(p) =>
         ((\E m \in 1..Len(reqs[p].errs) : IsConflictErr(reqs[p].errs[m]))
            <=> (/\ ~reqs[p].list.err
                 /\ Colliders(reqs[p].obj, reqs[p].list.items) # {}))
  /\ \A p, q \in Procs :
       (/\ p # q /\ Decided(p) /\ Listed(q)
        /\ Collide(reqs[p].obj.Spec.TargetReference, reqs[q].obj.Spec.TargetReference)
        /\ ~reqs[p].list.err /\ ~Saw(p, q)
        /\ Colliders(reqs[p].obj, reqs[p].list.items) = {})
         => reqs[p].pc \in {"allowed", "persisted"}
  /\ \A p, q \in Procs :
       (/\ p # q
        /\ reqs[p].pc = "persisted" /\ reqs[q].pc = "persisted"
        /\ Collide(reqs[p].obj.Spec.TargetReference, reqs[q].obj.Spec.TargetReference))
         => ~Saw(p, q) /\ ~Saw(q, p)

\* two specifications with different names and target references of the same
\* group, kind and name (the versions differ) are both stored, both requests
\* having returned an empty error list
C1_Witness ==
  \E p, q \in Procs :
    /\ p # q
    /\ reqs[p].pc = "persisted" /\ reqs[q].pc = "persisted"
    /\ reqs[p].obj.Name # reqs[q].obj.Name
    /\ reqs[p].obj.Spec.TargetReference # reqs[q].obj.Spec.TargetReference
    /\ Collide(reqs[p].obj.Spec.TargetReference, reqs[q].obj.Spec.TargetReference)
    /\ reqs[p].errs = <<>> /\ reqs[q].errs = <<>>
    /\ {reqs[p].obj, reqs[q].obj} \subseteq store

(***************************************************************************)
(* The fetch of the referenced workload.                                   *)
(***************************************************************************)
RecognizedKinds ==
  {controllerKruiseKindCS.Kind, controllerKindDep.Kind, controllerKindRS.Kind,
   controllerKindJob.Kind, controllerKindSts.Kind}

\* a reference of a recognized kind that the switch of lines 112-161 accepts
RecognizedWithValidGroup(obj) ==
  /\ ~IsNil(obj.Spec.TargetReference)
  /\ Deref(obj.Spec.TargetReference).Kind \in RecognizedKinds
  /\ IsEmptyList(validateTargetRef(obj.Spec, Env(TRUE, FALSE)).errs)

\* the same specification with every subset patch removed
WithoutPatches(obj) ==
  [obj EXCEPT !.Spec.Subsets =
     [k \in 1..Len(obj.Spec.Subsets) |-> [obj.Spec.Subsets[k] EXCEPT !.Patch = Nil]]]

Patched(obj) == {k \in 1..Len(obj.Spec.Subsets) : ~IsNil(obj.Spec.Subsets[k].Patch)}

IsPatchErr(e) == e.Field = "spec.subsets.patch"

IsTargetRefErr(e) == e.Field = "spec.targetRef"

\* C12: for a target reference of a recognized kind with a valid group, a fetch
\* that fails adds no error: the pod template stays unset, the returned list
\* holds no error on the target reference and no patch error, and it is exactly
\* the list returned for the same specification with every subset patch
\* removed, whether or not the fetch of that one succeeds.
C12_FailedFetchAddsNoError ==
  (ValidateCallDone /\ RecognizedWithValidGroup(call.obj) /\ ~call.env.getOk) =>
    /\ IsNil(validateTargetRef(call.obj.Spec, call.env).tmpl)
    /\ \A n \in 1..Len(call.out) :
         ~IsPatchErr(call.out[n])
         /\ (IsTargetRefErr(call.out[n]) => IsConflictErr(call.out[n]))
    /\ call.out = validatingWorkloadSpreadFn(WithoutPatches(call.obj), call.env, call.list)
    /\ call.out = validatingWorkloadSpreadFn(WithoutPatches(call.obj),
                                             [call.env EXCEPT !.getOk = TRUE], call.list)

\* the fetch failed for a StatefulSet target whose subsets carry two patches
\* that would be rejected against a fetched template; the list returned holds
\* another error and no patch error
C12_Witness ==
  /\ ValidateCallDone /\ RecognizedWithValidGroup(call.obj) /\ ~call.env.getOk
  /\ Deref(call.obj.Spec.TargetReference).Kind = controllerKindSts.Kind
  /\ Cardinality(Patched(call.obj)) = 2
  /\ \E k \in Patched(call.obj) : call.obj.Spec.Subsets[k].Patch = Some("malformed")
  /\ \E k \in Patched(call.obj) : call.obj.Spec.Subsets[k].Patch = Some("badSpec")
  /\ Len(call.out) = 1
  /\ \A n \in 1..Len(call.out) : ~IsPatchErr(call.out[n])
  /\ \E n \in 1..Len(validatingWorkloadSpreadFn(call.obj, [call.env EXCEPT !.getOk = TRUE],
                                                 call.list)) :
       IsPatchErr(validatingWorkloadSpreadFn(call.obj, [call.env EXCEPT !.getOk = TRUE],
                                             call.list)[n])

====
